---- MODULE Spec2Model ----
(***************************************************************************)
(* terasu-proxy: the TLS record codec (ReadInitialRecord, Record.Write,    *)
(* WriteRecords, selectGapDuration), the ClientHello splitter              *)
(* (Record.SplitClientHello), the per-connection handler                   *)
(* (Server.handleConn), the duplex relay (pipeBidirectional) and the       *)
(* accept loop (Server.Run).                                               *)
(*                                                                         *)
(* Bytes are naturals 0..255.  A Go *Record is a sequence of at most one   *)
(* record (<<>> is nil); a Go error is a string ("nil" is no error).       *)
(***************************************************************************)
EXTENDS Integers, Sequences, FiniteSets, TLC

VARIABLES
    cfg,           \* Server.config: [FirstFragment, MaxRecordSize]
    clientStream,  \* every byte the client sends on its connection, in order
    serverStream,  \* every byte the upstream sends on its connection, in order
    ctxDone,       \* the context passed to handleConn is cancelled
    pc,            \* position of handleConn
    watcher,       \* the goroutine of handleConn that waits on ctx.Done / stopCh
    clientSock,    \* the proxy's client socket: "open" or "closed"
    upstreamSock,  \* the proxy's upstream socket: "none", "open" or "closed"
    upstreamShut,  \* CloseWrite was called on the upstream socket
    clientShut,    \* CloseWrite was called on the client socket
    rpos,          \* number of bytes consumed from the client socket
    record,        \* handleConn's record (result of ReadInitialRecord)
    rawBytes,      \* handleConn's rawBytes
    err,           \* handleConn's err (of the dial, the read, the split)
    writeErr,      \* handleConn's writeErr / the err of WriteRecords
    records,       \* handleConn's records (result of SplitClientHello)
    widx,          \* WriteRecords' loop index (records written so far)
    upstreamRecv,  \* every byte written to the upstream socket, in order
    c2u,           \* client -> upstream copy goroutine: "idle", "copy", "done"
    u2c,           \* upstream -> client copy goroutine: "idle", "copy", "done"
    spos,          \* number of bytes consumed from the upstream socket
    clientRecv,    \* every byte written to the client socket, in order
    c2uErr,        \* the error io.Copy(upstream, client) returned
    u2cErr,        \* the error io.Copy(client, upstream) returned
    halfClose,     \* the connections implement CloseWrite (they are *net.TCPConn)
    sleeps,        \* the sleeps of WriteRecords so far: [after, gap] each
    clientDeadline,\* the read deadline of the client socket: "none" or "set"
    listener,      \* Run's listener: "none", "open" or "closed"
    runPc,         \* position of Run: "listen", "accept", "backoff", "wait", "returned"
    acceptErr,     \* the error of Run's last listener.Accept
    runErr,        \* the error Run returns
    runCtx,        \* the context passed to Run: "live" or "done"
    closer,        \* the goroutine of Run that closes the listener on ctx.Done
    conns,         \* the connections Run accepted, each with its handler's state
    c2uBuf,        \* the bytes io.Copy(upstream, client) has read and not yet written
    u2cBuf,        \* the bytes io.Copy(client, upstream) has read and not yet written
    call,          \* the call under test of a pure function: its arguments
    ret            \* its result (<<>> until it has returned)

vars == <<cfg, clientStream, serverStream, ctxDone, pc, watcher, clientSock,
          upstreamSock, upstreamShut, clientShut, rpos, record, rawBytes, err,
          writeErr, records, widx, upstreamRecv, c2u, u2c, spos, clientRecv, c2uErr,
          u2cErr, halfClose, sleeps, clientDeadline, call, ret, listener,
          runPc, acceptErr, runErr, runCtx, closer, conns, c2uBuf, u2cBuf>>

\* the state of Run and of the handlers it started
runVars == <<listener, runPc, acceptErr, runErr, runCtx, closer, conns>>

handlerVars == <<cfg, clientStream, serverStream, ctxDone, pc, watcher,
                 clientSock, upstreamSock, upstreamShut, clientShut, rpos,
                 record, rawBytes, err, writeErr, records, widx, upstreamRecv,
                 c2u, u2c, spos, clientRecv, c2uErr, u2cErr, halfClose, sleeps,
                 clientDeadline, c2uBuf, u2cBuf>>

----------------------------------------------------------------------------
(* Bounds of the model. *)

\* longest payload of a record handed to SplitClientHello
MaxPayload == 6
\* longest stream handed to ReadInitialRecord on its own
MaxStream == 7
\* largest MaxRecordSize handed to ReadInitialRecord on its own
MaxSizeArg == 3
\* longest run of bytes that follows the 5-byte header in a client stream
MaxTail == 5
\* largest FirstFragment of a handler's configuration
MaxFirst == 1
\* the MaxRecordSize of a handler's configuration
MaxRecord == 4
\* largest gap bound handed to selectGapDuration and to WriteRecords on its own
MaxGap == 6
\* most records handed to WriteRecords on its own
MaxRecords == 3

(* Program constants. *)
recordTypeHandshake == 22
handshakeTypeClientHello == 1

----------------------------------------------------------------------------
(* Sequences of bytes. *)

Take(s, n) == SubSeq(s, 1, n)
Drop(s, n) == SubSeq(s, n + 1, Len(s))
SeqsUpTo(S, n) == UNION { [1..k -> S] : k \in 0..n }
IsPrefix(s, t) == Len(s) <= Len(t) /\ Take(t, Len(s)) = s

\* binary.BigEndian.Uint16
Uint16(hi, lo) == hi * 256 + lo

NilError == "nil"
ErrNotHandshake == "record is not a handshake"
ErrNotClientHello == "handshake is not a ClientHello"
ErrRecordTooLarge == "record exceeds configured limit"
ErrHandshakeTooShort == "handshake record too short"
ErrLengthMismatch == "handshake length mismatch"
ErrPayloadTooLarge == "record payload too large"
ErrEOF == "EOF"
ErrUnexpectedEOF == "unexpected EOF"
ErrTimeout == "i/o timeout"
ErrClosed == "use of closed network connection"
ErrWrite == "write error"
ErrDial == "dial error"
ErrListen == "listen error"
ErrAccept == "accept error"

Rec(ct, ver, payload) == [ContentType |-> ct, Version |-> ver, Payload |-> payload]

----------------------------------------------------------------------------
(* internal/tls/records.go *)

\* n, err := io.ReadFull(conn, buf) with buf = make([]byte, want), on a
\* connection that still delivers the bytes `pending` and then ends the read
\* with `cause`: the first n bytes of buf are read, the rest stay zero.
ReadFull(pending, want, cause) ==
    IF Len(pending) >= want
    THEN [n |-> want, buf |-> Take(pending, want), err |-> NilError]
    ELSE [n |-> Len(pending),
          buf |-> pending \o [i \in 1..(want - Len(pending)) |-> 0],
          err |-> IF cause = ErrEOF /\ Len(pending) > 0 THEN ErrUnexpectedEOF ELSE cause]

\* a bug: the whole buffer is appended, not the n bytes that were read
AppendReadWholeBuffer(total, buf, n) == total \o buf

\* total = append(total, buf[:n]...)
AppendRead(total, buf, n) == total \o Take(buf, n)

\* a bug: a record of exactly the cap is rejected too
TooLargeOffByOne(length, maxSize) == length >= maxSize

\* length > maxSize
TooLarge(length, maxSize) == length > maxSize

\* ReadInitialRecord(conn, timeout, maxSize): `arrived` are the bytes the
\* connection delivers before the read ends with `cause` (EOF, deadline, close).
\* consumed is the number of bytes the call took off the connection.
ReadInitialRecord(arrived, cause, maxSize) ==
    LET h == ReadFull(arrived, 5, cause)
        total == AppendRead(<<>>, h.buf, h.n)
    IN  IF h.err # NilError
        THEN [record |-> <<>>, raw |-> total, err |-> h.err, consumed |-> h.n]
        ELSE LET header == h.buf
                 length == Uint16(header[4], header[5])
             IN  IF TooLarge(length, maxSize)
                 THEN [record |-> <<>>, raw |-> total, err |-> ErrRecordTooLarge,
                       consumed |-> h.n]
                 ELSE LET p == ReadFull(Drop(arrived, h.n), length, cause)
                          total2 == AppendRead(total, p.buf, p.n)
                      IN  IF p.err # NilError
                          THEN [record |-> <<>>, raw |-> total2, err |-> p.err,
                                consumed |-> h.n + p.n]
                          ELSE [record |-> << Rec(header[1],
                                                  Uint16(header[2], header[3]),
                                                  p.buf) >>,
                                raw |-> total2, err |-> NilError,
                                consumed |-> h.n + p.n]

\* a bug: the high byte of the body length is ignored
BodyLength16(payload) == payload[3] * 256 + payload[4]

\* the 24-bit big-endian body length of a handshake payload
BodyLength(payload) == payload[2] * 65536 + payload[3] * 256 + payload[4]

\* a bug: off by one at both ends of the no-op test
SplitNoOpOffByOne(rec, first) == first < 0 \/ first > Len(rec.Payload)

\* the no-op test of SplitClientHello
SplitNoOp(rec, first) == first <= 0 \/ first >= Len(rec.Payload)

\* firstPayload := append([]byte(nil), rec.Payload[:first]...)
firstPayload(rec, first) == Take(rec.Payload, first)

\* a bug: the second fragment starts one byte late
secondPayloadSkipsByte(rec, first) == Drop(rec.Payload, first + 1)

\* secondPayload := append([]byte(nil), rec.Payload[first:]...)
secondPayload(rec, first) == Drop(rec.Payload, first)

\* (rec *Record).SplitClientHello(first)
SplitClientHello(rec, first) ==
    IF rec.ContentType # recordTypeHandshake
    THEN [records |-> <<>>, err |-> ErrNotHandshake]
    ELSE IF Len(rec.Payload) < 4
    THEN [records |-> <<>>, err |-> ErrHandshakeTooShort]
    ELSE IF rec.Payload[1] # handshakeTypeClientHello
    THEN [records |-> <<>>, err |-> ErrNotClientHello]
    ELSE IF BodyLength(rec.Payload) + 4 # Len(rec.Payload)
    THEN [records |-> <<>>, err |-> ErrLengthMismatch]
    ELSE IF SplitNoOp(rec, first)
    THEN [records |-> << Rec(rec.ContentType, rec.Version, rec.Payload) >>,
          err |-> NilError]
    ELSE [records |-> << Rec(rec.ContentType, rec.Version, firstPayload(rec, first)),
                         Rec(rec.ContentType, rec.Version, secondPayload(rec, first)) >>,
          err |-> NilError]

\* the 5-byte header (rec *Record).Write builds
RecordHeader(rec) ==
    << rec.ContentType,
       (rec.Version \div 256) % 256, rec.Version % 256,
       (Len(rec.Payload) \div 256) % 256, Len(rec.Payload) % 256 >>

\* a bug: the record is written without its header
RecordBytesNoHeader(rec) == rec.Payload

\* the bytes (rec *Record).Write hands to the connection
RecordBytes(rec) == RecordHeader(rec) \o rec.Payload

\* the bytes WriteRecords hands to the connection for the records rs
RECURSIVE WireOf(_)
WireOf(rs) == IF rs = <<>> THEN <<>> ELSE RecordBytes(Head(rs)) \o WireOf(Tail(rs))

\* a bug: the draw includes its bound
Int63nInclusive(n) == 0..n

\* the values rand.Int63n(n) returns
Int63n(n) == 0..(n - 1)

\* selectGapDuration: min and max after the two clamps
GapLow(min) == IF min < 0 THEN 0 ELSE min
GapHigh(min, max) == IF max < GapLow(min) THEN GapLow(min) ELSE max

\* the values n of rand.Int63n a call of selectGapDuration(min, max) can draw
\* (0 where it returns without drawing)
GapDraws(min, max) ==
    IF max <= 0 \/ GapHigh(min, max) - GapLow(min) <= 0
    THEN {0}
    ELSE Int63n(GapHigh(min, max) - GapLow(min) + 1)

\* selectGapDuration(min, max) when rand.Int63n returns n
selectGapDuration(min, max, n) ==
    IF max <= 0
    THEN 0
    ELSE LET span == GapHigh(min, max) - GapLow(min)
         IN  IF span <= 0 THEN GapHigh(min, max) ELSE GapLow(min) + n

\* every duration selectGapDuration(min, max) can return
GapDurations(min, max) ==
    { selectGapDuration(min, max, n) : n \in GapDraws(min, max) }

\* a bug: WriteRecords sleeps after every record but the last
SleepsAfterEveryRecord(idx, n) == idx + 1 < n

\* WriteRecords asks for a gap after the record of index idx out of n
SleepsAfter(idx, n) == idx = 0 /\ n > 1

\* the gaps WriteRecords may sleep after the record of index idx out of n
\* (0: no sleep)
GapAfter(idx, n, gapMin, gapMax) ==
    IF SleepsAfter(idx, n) THEN GapDurations(gapMin, gapMax) ELSE {0}

----------------------------------------------------------------------------
(* The inputs of a connection. *)

\* a 5-byte record header of version 0x0301 and length l < 256
Header(ct, l) == <<ct, 3, 1, 0, l>>

\* the bytes that follow the header: a handshake header (message type m, body
\* length b) and then alternating bytes
TailByte(i, m, b) ==
    IF i = 1 THEN m ELSE IF i < 4 THEN 0 ELSE IF i = 4 THEN b ELSE i % 2

Body(n, m, b) == [i \in 1..n |-> TailByte(i, m, b)]

\* streams that start with a handshake record header of every length up to
\* one more than the configured cap
HandshakeStreams ==
    { Header(recordTypeHandshake, l) \o Body(n, m, b) :
        l \in 0..(MaxRecord + 1), n \in 0..MaxTail, m \in {0, 1}, b \in {0, 1} }

\* streams that start with an application-data record header
OtherStreams ==
    { Header(23, l) \o Body(n, 1, 0) : l \in {0, MaxRecord}, n \in 0..MaxTail }

\* streams that end inside the header
ShortStreams ==
    { Take(Header(ct, MaxRecord), k) : ct \in {recordTypeHandshake, 23}, k \in 0..4 }

\* the byte streams a client sends
ClientStreams == HandshakeStreams \cup OtherStreams \cup ShortStreams

\* the byte stream the upstream sends
ServerStreams == { <<2>> }

\* the validated gap range of a handler's configuration: a draw of 0 behaves
\* as the range [0, 0] does, a draw of 1 sleeps
GapRanges == { <<0, 1>> }

Configs ==
    { [FirstFragment |-> f, MaxRecordSize |-> MaxRecord, GapMin |-> g[1],
       GapMax |-> g[2], ReadTimeout |-> 1] :
        f \in 0..MaxFirst, g \in GapRanges }

\* Run is not under test
NoRun ==
    /\ listener = "none"
    /\ runPc = "none"
    /\ acceptErr = NilError
    /\ runErr = NilError
    /\ runCtx = "live"
    /\ closer = "none"
    /\ conns = <<>>

\* no pure-function call is under test
NoCall == call = <<>> /\ ret = <<>>

Init ==
    /\ cfg \in Configs
    /\ clientStream \in ClientStreams
    /\ serverStream \in ServerStreams
    /\ halfClose = TRUE
    /\ ctxDone = FALSE
    /\ pc = "dial"
    /\ watcher = "none"
    /\ clientSock = "open"
    /\ upstreamSock = "none"
    /\ upstreamShut = FALSE
    /\ clientShut = FALSE
    /\ rpos = 0
    /\ record = <<>>
    /\ rawBytes = <<>>
    /\ err = NilError
    /\ writeErr = NilError
    /\ records = <<>>
    /\ widx = 0
    /\ upstreamRecv = <<>>
    /\ c2u = "idle"
    /\ u2c = "idle"
    /\ spos = 0
    /\ clientRecv = <<>>
    /\ c2uErr = NilError
    /\ u2cErr = NilError
    /\ sleeps = <<>>
    /\ clientDeadline = "none"
    /\ c2uBuf = <<>>
    /\ u2cBuf = <<>>
    /\ NoCall
    /\ NoRun

----------------------------------------------------------------------------
(* Server.handleConn *)

\* handleConn returns: its defers close stopCh, the upstream and the client
Return ==
    /\ pc' = "done"
    /\ clientSock' = "closed"
    /\ upstreamSock' = IF upstreamSock = "none" THEN "none" ELSE "closed"
    /\ watcher' = IF watcher = "armed" THEN "stopped" ELSE watcher

\* pipe(connLog, client, upstream): both copy goroutines are started
StartPipe ==
    /\ pc' = "pipe"
    /\ c2u' = "copy"
    /\ u2c' = "copy"

\* a write to the upstream socket can succeed
UpstreamWritable == upstreamSock = "open" /\ ~upstreamShut
\* a write to the client socket can succeed
ClientWritable == clientSock = "open" /\ ~clientShut

\* the sizes of the chunk one Read of io.Copy may return when `left` bytes
\* remain: whatever has arrived, from one byte to all of them
Chunks(left) == 1..left

\* the prefixes of `bytes` a failing write may have delivered
FailedPrefixes(bytes, writable) ==
    IF writable THEN 0..(Len(bytes) - 1) ELSE {0}

\* a bug: a failed dial is ignored
AfterDialIgnoresError(e) == "read"

\* where handleConn goes after DialContext returned the error e
AfterDial(e) == IF e # NilError THEN "done" ELSE "read"

\* s.dialer.DialContext fails (refused, timed out, cancelled): log, return
DialFail ==
    /\ pc = "dial"
    /\ err' = ErrDial
    /\ IF AfterDial(ErrDial) = "done"
       THEN Return
       ELSE /\ pc' = AfterDial(ErrDial)
            /\ UNCHANGED <<clientSock, upstreamSock, watcher>>
    /\ UNCHANGED <<cfg, clientStream, serverStream, ctxDone, upstreamShut,
                   clientShut, rpos, record, rawBytes, records, widx,
                   upstreamRecv, c2u, u2c, spos, clientRecv, c2uErr, u2cErr,
                   halfClose, sleeps, clientDeadline, writeErr, call, ret, runVars, c2uBuf, u2cBuf>>

\* s.dialer.DialContext succeeds: defer upstream.Close, start the watcher
DialOk ==
    /\ pc = "dial"
    /\ ~ctxDone
    /\ upstreamSock' = "open"
    /\ watcher' = "armed"
    /\ pc' = "read"
    /\ UNCHANGED <<cfg, clientStream, serverStream, ctxDone, clientSock,
                   upstreamShut, clientShut, rpos, record, rawBytes, err,
                   records, widx, upstreamRecv, c2u, u2c, spos, clientRecv,
                   c2uErr, u2cErr, halfClose, sleeps, clientDeadline, writeErr, call,
                   ret, runVars, c2uBuf, u2cBuf>>

\* a bug: the deadline set for the read stays on the connection
DeadlineLeftSet(timeout, before) == IF timeout > 0 THEN "set" ELSE before

\* the read deadline of conn when ReadInitialRecord(conn, timeout, maxSize)
\* returns: with a timeout it is set on entry and cleared by the deferred call
DeadlineAfterRead(timeout, before) == IF timeout > 0 THEN "none" ELSE before

\* where handleConn goes after ReadInitialRecord returned r
AfterRead(r) ==
    IF r.err # NilError
    THEN IF Len(r.raw) > 0 THEN "fwdPartial" ELSE "pipe"
    ELSE "split"

\* the read deadline of conn inside ReadInitialRecord(conn, timeout, maxSize)
DeadlineInRead(timeout, before) == IF timeout > 0 THEN "set" ELSE before

\* the number of bytes the io.ReadFull that ReadInitialRecord is in still
\* waits for, when it has taken `taken` off the connection: the rest of the
\* header, then the rest of the payload the header declares (0: it returns)
ReadWants(taken, maxSize) ==
    IF Len(taken) < 5
    THEN 5 - Len(taken)
    ELSE IF TooLarge(Uint16(taken[4], taken[5]), maxSize)
    THEN 0
    ELSE 5 + Uint16(taken[4], taken[5]) - Len(taken)

\* handleConn calls tls.ReadInitialRecord(client, ...), which sets the read
\* deadline and enters io.ReadFull
ReadInitialStart ==
    /\ pc = "read"
    /\ pc' = "reading"
    /\ clientDeadline' = DeadlineInRead(cfg.ReadTimeout, clientDeadline)
    /\ UNCHANGED <<cfg, clientStream, serverStream, ctxDone, watcher, clientSock,
                   upstreamSock, upstreamShut, clientShut, rpos, record, rawBytes,
                   err, records, widx, upstreamRecv, c2u, u2c, spos, clientRecv,
                   c2uErr, u2cErr, halfClose, sleeps, writeErr, call, ret,
                   runVars, c2uBuf, u2cBuf>>

\* io.ReadFull inside ReadInitialRecord takes the next n bytes that arrived,
\* and goes on waiting if it wants more
ReadInitialTake ==
    /\ pc = "reading"
    /\ clientSock = "open"
    /\ \E n \in 1..(Len(clientStream) - rpos) :
        /\ n <= ReadWants(Take(clientStream, rpos), cfg.MaxRecordSize)
        /\ rpos' = rpos + n
    /\ UNCHANGED <<cfg, clientStream, serverStream, ctxDone, pc, watcher,
                   clientSock, upstreamSock, upstreamShut, clientShut, record,
                   rawBytes, err, records, widx, upstreamRecv, c2u, u2c, spos,
                   clientRecv, c2uErr, u2cErr, halfClose, sleeps, clientDeadline,
                   writeErr, call, ret, runVars, c2uBuf, u2cBuf>>

\* record, rawBytes, err := tls.ReadInitialRecord(client, ...) returns: it has
\* all the bytes it wanted, or the read it waits in ends (EOF once the client
\* has sent everything, the deadline, the watcher's close of the socket)
ReadInitialEnd ==
    /\ pc = "reading"
    /\ \E cause \in {ErrEOF, ErrTimeout, ErrClosed} :
        /\ IF ReadWants(Take(clientStream, rpos), cfg.MaxRecordSize) = 0
           THEN cause = ErrEOF
           ELSE /\ cause = ErrClosed <=> clientSock = "closed"
                /\ cause = ErrEOF => rpos = Len(clientStream)
                /\ cause = ErrTimeout => cfg.ReadTimeout > 0
        /\ LET r == ReadInitialRecord(Take(clientStream, rpos), cause,
                                      cfg.MaxRecordSize)
           IN  /\ record' = r.record
               /\ rawBytes' = r.raw
               /\ err' = r.err
               /\ rpos' = r.consumed
               /\ pc' = AfterRead(r)
               /\ c2u' = IF AfterRead(r) = "pipe" THEN "copy" ELSE c2u
               /\ u2c' = IF AfterRead(r) = "pipe" THEN "copy" ELSE u2c
    /\ clientDeadline' = DeadlineAfterRead(cfg.ReadTimeout, clientDeadline)
    /\ UNCHANGED <<cfg, clientStream, serverStream, ctxDone, watcher, clientSock,
                   upstreamSock, upstreamShut, clientShut, records, widx,
                   upstreamRecv, spos, clientRecv, c2uErr, u2cErr, halfClose, sleeps,
                   writeErr, call, ret, runVars, c2uBuf, u2cBuf>>

\* a bug: only the record header is forwarded on a fallback
FallbackBytesHeaderOnly == IF Len(rawBytes) > 5 THEN Take(rawBytes, 5) ELSE rawBytes

\* the bytes handleConn forwards when it falls back
FallbackBytes == rawBytes

\* upstream.Write(rawBytes) succeeds, then pipe
ForwardOk(at) ==
    /\ pc = at
    /\ UpstreamWritable
    /\ upstreamRecv' = upstreamRecv \o FallbackBytes
    /\ StartPipe
    /\ UNCHANGED <<cfg, clientStream, serverStream, ctxDone, watcher, clientSock,
                   upstreamSock, upstreamShut, clientShut, rpos, record, rawBytes,
                   err, records, widx, spos, clientRecv, c2uErr, u2cErr,
                   halfClose, sleeps, clientDeadline, writeErr, call, ret, runVars, c2uBuf, u2cBuf>>

\* a bug: the relay is started although the write of the initial bytes failed
RelayAfterWriteFailure ==
    /\ StartPipe
    /\ UNCHANGED <<clientSock, upstreamSock, watcher>>

\* the write of the initial bytes failed: log, return, without the relay
Abandon ==
    /\ Return
    /\ UNCHANGED <<c2u, u2c>>

\* upstream.Write(rawBytes) fails after k bytes: log, return
ForwardFail(at) ==
    /\ pc = at
    /\ \E k \in FailedPrefixes(FallbackBytes, UpstreamWritable) :
        upstreamRecv' = upstreamRecv \o Take(FallbackBytes, k)
    /\ writeErr' = ErrWrite
    /\ Abandon
    /\ UNCHANGED <<cfg, clientStream, serverStream, ctxDone, upstreamShut,
                   clientShut, rpos, record, rawBytes, err, records, widx,
                   spos, clientRecv, c2uErr, u2cErr, halfClose, sleeps, clientDeadline,
                   call, ret, runVars, c2uBuf, u2cBuf>>

\* the read failed with captured bytes: forward them
ForwardPartialOk == ForwardOk("fwdPartial")
ForwardPartialFail == ForwardFail("fwdPartial")

\* a bug: a malformed handshake abandons the session instead of falling back
AfterSplitAbandonsMalformed(r) ==
    IF r.err \in {ErrHandshakeTooShort, ErrLengthMismatch}
    THEN "done"
    ELSE IF r.err # NilError THEN "fwdRaw" ELSE "write"

\* where handleConn goes after SplitClientHello returned r
AfterSplit(r) ==
    IF r.err # NilError
    THEN IF Len(rawBytes) > 0 THEN "fwdRaw" ELSE "pipe"
    ELSE "write"

\* records, err := record.SplitClientHello(s.config.FirstFragment)
Split ==
    /\ pc = "split"
    /\ LET r == SplitClientHello(record[1], cfg.FirstFragment)
       IN  /\ records' = r.records
           /\ err' = r.err
           /\ pc' = AfterSplit(r)
           /\ c2u' = IF AfterSplit(r) = "pipe" THEN "copy" ELSE c2u
           /\ u2c' = IF AfterSplit(r) = "pipe" THEN "copy" ELSE u2c
    /\ UNCHANGED <<cfg, clientStream, serverStream, ctxDone, watcher, clientSock,
                   upstreamSock, upstreamShut, clientShut, rpos, record, rawBytes,
                   widx, upstreamRecv, spos, clientRecv, c2uErr, u2cErr,
                   halfClose, sleeps, clientDeadline, writeErr, call, ret, runVars, c2uBuf, u2cBuf>>

\* the split failed: forward the raw bytes of the record
ForwardRawOk == ForwardOk("fwdRaw")
ForwardRawFail == ForwardFail("fwdRaw")

\* a bug: the relay is started as soon as the first record is written
LastRecordIsFirst == widx + 1 >= 1

\* the loop of WriteRecords ends with the record it is writing
LastRecord == widx + 1 = Len(records)

\* WriteRecords is inside time.Sleep
Sleeping == sleeps # <<>> /\ ~sleeps[Len(sleeps)].over

\* tls.WriteRecords: rec.Write of records[widx] succeeds, then the gap is drawn
\* and, if positive, slept; with no sleep after the last record, pipe
WriteRecordOk ==
    /\ pc = "write"
    /\ ~Sleeping
    /\ widx < Len(records)
    /\ Len(records[widx + 1].Payload) <= 65535
    /\ UpstreamWritable
    /\ upstreamRecv' = upstreamRecv \o RecordBytes(records[widx + 1])
    /\ widx' = widx + 1
    /\ \E gap \in GapAfter(widx, Len(records), cfg.GapMin, cfg.GapMax) :
         IF gap > 0
         THEN /\ sleeps' = Append(sleeps, [after |-> widx + 1, gap |-> gap,
                                           over |-> FALSE])
              /\ UNCHANGED <<pc, c2u, u2c>>
         ELSE /\ UNCHANGED sleeps
              /\ IF LastRecord
                 THEN StartPipe
                 ELSE UNCHANGED <<pc, c2u, u2c>>
    /\ UNCHANGED <<cfg, clientStream, serverStream, ctxDone, watcher, clientSock,
                   upstreamSock, upstreamShut, clientShut, rpos, record, rawBytes,
                   err, records, spos, clientRecv, c2uErr, u2cErr, halfClose,
                   clientDeadline, writeErr, call, ret, runVars, c2uBuf, u2cBuf>>

\* tls.WriteRecords: time.Sleep(gap) returns; the loop goes on, or is over
WakeUp ==
    /\ pc = "write"
    /\ Sleeping
    /\ sleeps' = [sleeps EXCEPT ![Len(sleeps)].over = TRUE]
    /\ IF widx = Len(records)
       THEN StartPipe
       ELSE UNCHANGED <<pc, c2u, u2c>>
    /\ UNCHANGED <<cfg, clientStream, serverStream, ctxDone, watcher, clientSock,
                   upstreamSock, upstreamShut, clientShut, rpos, record, rawBytes,
                   err, records, widx, upstreamRecv, spos, clientRecv, c2uErr,
                   u2cErr, halfClose, clientDeadline, writeErr, call, ret, runVars, c2uBuf, u2cBuf>>

\* tls.WriteRecords: rec.Write of records[widx] fails: WriteRecords returns the
\* error and handleConn returns
WriteRecordFail ==
    /\ pc = "write"
    /\ ~Sleeping
    /\ widx < Len(records)
    /\ IF Len(records[widx + 1].Payload) > 65535
       THEN /\ writeErr' = ErrPayloadTooLarge
            /\ UNCHANGED upstreamRecv
       ELSE /\ writeErr' = ErrWrite
            /\ \E k \in FailedPrefixes(RecordBytes(records[widx + 1]), UpstreamWritable) :
                 upstreamRecv' = upstreamRecv \o Take(RecordBytes(records[widx + 1]), k)
    /\ Abandon
    /\ UNCHANGED <<cfg, clientStream, serverStream, ctxDone, upstreamShut,
                   clientShut, rpos, record, rawBytes, err, records, widx,
                   spos, clientRecv, c2uErr, u2cErr, halfClose, sleeps, clientDeadline,
                   call, ret, runVars, c2uBuf, u2cBuf>>

----------------------------------------------------------------------------
(* pipeBidirectional: the two copy goroutines and closeWrite *)

\* a bug: the whole connection is closed even when it can be half-closed
CloseWriteUpstreamClosesAll ==
    /\ upstreamSock' = "closed"
    /\ UNCHANGED upstreamShut

\* closeWrite(upstream), run by the client -> upstream goroutine when its copy ended
CloseWriteUpstream ==
    IF halfClose
    THEN /\ upstreamShut' = TRUE
         /\ UNCHANGED upstreamSock
    ELSE /\ upstreamSock' = "closed"
         /\ UNCHANGED upstreamShut

\* closeWrite(client), run by the upstream -> client goroutine when its copy ended
CloseWriteClient ==
    IF halfClose
    THEN /\ clientShut' = TRUE
         /\ UNCHANGED clientSock
    ELSE /\ clientSock' = "closed"
         /\ UNCHANGED clientShut

\* io.Copy(upstream, client): src.Read returns a chunk of n bytes
C2URead ==
    /\ c2u = "copy"
    /\ c2uBuf = <<>>
    /\ clientSock = "open"
    /\ \E n \in Chunks(Len(clientStream) - rpos) :
        /\ rpos' = rpos + n
        /\ c2uBuf' = SubSeq(clientStream, rpos + 1, rpos + n)
    /\ UNCHANGED <<cfg, clientStream, serverStream, ctxDone, pc, watcher,
                   clientSock, upstreamSock, upstreamShut, clientShut, record,
                   rawBytes, err, records, widx, upstreamRecv, c2u, u2c, spos,
                   clientRecv, c2uErr, u2cErr, halfClose, sleeps, clientDeadline,
                   writeErr, call, ret, runVars, u2cBuf>>

\* io.Copy(upstream, client): dst.Write of the chunk read succeeds
C2UWrite ==
    /\ c2u = "copy"
    /\ c2uBuf # <<>>
    /\ UpstreamWritable
    /\ upstreamRecv' = upstreamRecv \o c2uBuf
    /\ c2uBuf' = <<>>
    /\ UNCHANGED <<cfg, clientStream, serverStream, ctxDone, pc, watcher,
                   clientSock, upstreamSock, upstreamShut, clientShut, rpos,
                   record, rawBytes, err, records, widx, c2u, u2c, spos,
                   clientRecv, c2uErr, u2cErr, halfClose, sleeps, clientDeadline,
                   writeErr, call, ret, runVars, u2cBuf>>

\* io.Copy(upstream, client): dst.Write of the chunk read fails after k bytes;
\* the copy returns the error, then closeWrite(upstream)
C2UWriteFail ==
    /\ c2u = "copy"
    /\ c2uBuf # <<>>
    /\ \E k \in FailedPrefixes(c2uBuf, UpstreamWritable) :
        upstreamRecv' = upstreamRecv \o Take(c2uBuf, k)
    /\ c2uBuf' = <<>>
    /\ c2uErr' = ErrWrite
    /\ c2u' = "done"
    /\ CloseWriteUpstream
    /\ UNCHANGED <<cfg, clientStream, serverStream, ctxDone, pc, watcher,
                   clientSock, clientShut, rpos, record, rawBytes, err, records,
                   widx, u2c, spos, clientRecv, u2cErr, halfClose, sleeps,
                   clientDeadline, writeErr, call, ret, runVars, u2cBuf>>

\* io.Copy(upstream, client): src.Read ends the copy (EOF once the client has
\* sent everything and closed; an error once the socket is closed, or when a
\* read deadline left on the socket expires), then closeWrite(upstream)
C2UEnd ==
    /\ c2u = "copy"
    /\ c2uBuf = <<>>
    /\ \/ clientSock = "closed" /\ c2uErr' = ErrClosed
       \/ clientSock = "open" /\ rpos = Len(clientStream) /\ c2uErr' = NilError
       \/ clientSock = "open" /\ clientDeadline = "set" /\ c2uErr' = ErrTimeout
    /\ c2u' = "done"
    /\ CloseWriteUpstream
    /\ UNCHANGED <<cfg, clientStream, serverStream, ctxDone, pc, watcher,
                   clientSock, clientShut, rpos, record, rawBytes, err, records,
                   widx, upstreamRecv, u2c, spos, clientRecv, u2cErr, halfClose,
                   sleeps, clientDeadline, writeErr,
                   call, ret, runVars, c2uBuf, u2cBuf>>

\* io.Copy(client, upstream): src.Read returns a chunk of n bytes
U2CRead ==
    /\ u2c = "copy"
    /\ u2cBuf = <<>>
    /\ upstreamSock = "open"
    /\ \E n \in Chunks(Len(serverStream) - spos) :
        /\ spos' = spos + n
        /\ u2cBuf' = SubSeq(serverStream, spos + 1, spos + n)
    /\ UNCHANGED <<cfg, clientStream, serverStream, ctxDone, pc, watcher,
                   clientSock, upstreamSock, upstreamShut, clientShut, rpos,
                   record, rawBytes, err, records, widx, upstreamRecv, c2u, u2c,
                   clientRecv, c2uErr, u2cErr, halfClose, sleeps, clientDeadline,
                   writeErr, call, ret, runVars, c2uBuf>>

\* io.Copy(client, upstream): dst.Write of the chunk read succeeds
U2CWrite ==
    /\ u2c = "copy"
    /\ u2cBuf # <<>>
    /\ ClientWritable
    /\ clientRecv' = clientRecv \o u2cBuf
    /\ u2cBuf' = <<>>
    /\ UNCHANGED <<cfg, clientStream, serverStream, ctxDone, pc, watcher,
                   clientSock, upstreamSock, upstreamShut, clientShut, rpos,
                   record, rawBytes, err, records, widx, upstreamRecv, c2u, u2c,
                   spos, c2uErr, u2cErr, halfClose, sleeps, clientDeadline,
                   writeErr, call, ret, runVars, c2uBuf>>

\* io.Copy(client, upstream): dst.Write of the chunk read fails after k bytes;
\* the copy returns the error, then closeWrite(client)
U2CWriteFail ==
    /\ u2c = "copy"
    /\ u2cBuf # <<>>
    /\ \E k \in FailedPrefixes(u2cBuf, ClientWritable) :
        clientRecv' = clientRecv \o Take(u2cBuf, k)
    /\ u2cBuf' = <<>>
    /\ u2cErr' = ErrWrite
    /\ u2c' = "done"
    /\ CloseWriteClient
    /\ UNCHANGED <<cfg, clientStream, serverStream, ctxDone, pc, watcher,
                   upstreamSock, upstreamShut, rpos, record, rawBytes, err,
                   records, widx, upstreamRecv, c2u, spos, c2uErr, halfClose,
                   sleeps, clientDeadline, writeErr, call, ret, runVars, c2uBuf>>

\* io.Copy(client, upstream): src.Read ends the copy, then closeWrite(client)
U2CEnd ==
    /\ u2c = "copy"
    /\ u2cBuf = <<>>
    /\ \/ upstreamSock = "closed" /\ u2cErr' = ErrClosed
       \/ upstreamSock = "open" /\ spos = Len(serverStream) /\ u2cErr' = NilError
    /\ u2c' = "done"
    /\ CloseWriteClient
    /\ UNCHANGED <<cfg, clientStream, serverStream, ctxDone, pc, watcher,
                   upstreamSock, upstreamShut, rpos, record, rawBytes, err,
                   records, widx, upstreamRecv, c2u, spos, clientRecv, c2uErr,
                   halfClose, sleeps, clientDeadline, writeErr, call, ret,
                   runVars, c2uBuf, u2cBuf>>

\* a bug: the relay ends with the first direction that finishes
EitherDone == c2u = "done" \/ u2c = "done"

\* wg.Wait() of pipeBidirectional: both goroutines have called wg.Done
BothDone == c2u = "done" /\ u2c = "done"

\* wg.Wait() of pipeBidirectional returns, pipe returns, handleConn returns
PipeDone ==
    /\ pc = "pipe"
    /\ BothDone
    /\ Return
    /\ UNCHANGED <<cfg, clientStream, serverStream, ctxDone, upstreamShut,
                   clientShut, rpos, record, rawBytes, err, records, widx,
                   upstreamRecv, c2u, u2c, spos, clientRecv, c2uErr, u2cErr,
                   halfClose, sleeps, clientDeadline, writeErr, call, ret, runVars, c2uBuf, u2cBuf>>

----------------------------------------------------------------------------
(* The context and the goroutine of handleConn that watches it *)

\* the process-wide context is cancelled while the session runs
Cancel ==
    /\ ~ctxDone
    /\ pc # "done"
    /\ ctxDone' = TRUE
    /\ UNCHANGED <<cfg, clientStream, serverStream, pc, watcher, clientSock,
                   upstreamSock, upstreamShut, clientShut, rpos, record, rawBytes,
                   err, records, widx, upstreamRecv, c2u, u2c, spos, clientRecv,
                   c2uErr, u2cErr, halfClose, sleeps, clientDeadline, writeErr, call,
                   ret, runVars, c2uBuf, u2cBuf>>

\* case <-ctx.Done(): client.Close()
WatcherCloseClient ==
    /\ watcher = "armed"
    /\ ctxDone
    /\ clientSock' = "closed"
    /\ watcher' = "closing"
    /\ UNCHANGED <<cfg, clientStream, serverStream, ctxDone, pc, upstreamSock,
                   upstreamShut, clientShut, rpos, record, rawBytes, err, records,
                   widx, upstreamRecv, c2u, u2c, spos, clientRecv, c2uErr, u2cErr,
                   halfClose, sleeps, clientDeadline, writeErr, call, ret, runVars, c2uBuf, u2cBuf>>

\* ... then upstream.Close()
WatcherCloseUpstream ==
    /\ watcher = "closing"
    /\ upstreamSock' = "closed"
    /\ watcher' = "fired"
    /\ UNCHANGED <<cfg, clientStream, serverStream, ctxDone, pc, clientSock,
                   upstreamShut, clientShut, rpos, record, rawBytes, err, records,
                   widx, upstreamRecv, c2u, u2c, spos, clientRecv, c2uErr, u2cErr,
                   halfClose, sleeps, clientDeadline, writeErr, call, ret, runVars, c2uBuf, u2cBuf>>

Next ==
    \/ DialFail
    \/ DialOk
    \/ ReadInitialStart
    \/ ReadInitialTake
    \/ ReadInitialEnd
    \/ ForwardPartialOk
    \/ ForwardPartialFail
    \/ Split
    \/ ForwardRawOk
    \/ ForwardRawFail
    \/ WriteRecordOk
    \/ WakeUp
    \/ WriteRecordFail
    \/ C2URead
    \/ C2UWrite
    \/ C2UWriteFail
    \/ C2UEnd
    \/ U2CRead
    \/ U2CWrite
    \/ U2CWriteFail
    \/ U2CEnd
    \/ PipeDone
    \/ Cancel
    \/ WatcherCloseClient
    \/ WatcherCloseUpstream

Spec == Init /\ [][Next]_vars

----------------------------------------------------------------------------
(* The record functions on their own: a call, then its result. *)

\* the variables of the single handler, when none is followed
IdleHandler ==
    /\ clientStream = <<>>
    /\ serverStream = <<>>
    /\ halfClose = TRUE
    /\ ctxDone = FALSE
    /\ pc = "none"
    /\ watcher = "none"
    /\ clientSock = "closed"
    /\ upstreamSock = "none"
    /\ upstreamShut = FALSE
    /\ clientShut = FALSE
    /\ rpos = 0
    /\ record = <<>>
    /\ rawBytes = <<>>
    /\ err = NilError
    /\ writeErr = NilError
    /\ records = <<>>
    /\ widx = 0
    /\ upstreamRecv = <<>>
    /\ c2u = "idle"
    /\ u2c = "idle"
    /\ spos = 0
    /\ clientRecv = <<>>
    /\ c2uErr = NilError
    /\ u2cErr = NilError
    /\ sleeps = <<>>
    /\ clientDeadline = "none"
    /\ c2uBuf = <<>>
    /\ u2cBuf = <<>>

\* no connection is being handled
NoSession ==
    /\ cfg = [FirstFragment |-> 0, MaxRecordSize |-> MaxRecord, GapMin |-> 0,
              GapMax |-> 0, ReadTimeout |-> 1]
    /\ IdleHandler
    /\ NoRun

\* the records handed to SplitClientHello: handshake and other content types,
\* two versions, every payload of up to MaxPayload bytes over {0, 1, 2}
SplitRecords ==
    { Rec(ct, ver, p) : ct \in {recordTypeHandshake, 23}, ver \in {769, 771},
                        p \in SeqsUpTo({0, 1, 2}, MaxPayload) }

InitSplit ==
    /\ NoSession
    /\ call \in [op : {"SplitClientHello"}, rec : SplitRecords,
                 first : (0 - 1)..(MaxPayload + 1)]
    /\ ret = <<>>

\* records, err := rec.SplitClientHello(first)
CallSplit ==
    /\ call.op = "SplitClientHello"
    /\ ret = <<>>
    /\ ret' = << SplitClientHello(call.rec, call.first) >>
    /\ UNCHANGED <<handlerVars, call, runVars>>

SpecSplit == InitSplit /\ [][CallSplit]_vars

\* the connections handed to ReadInitialRecord: every stream of up to MaxStream
\* bytes over {0, 2, 22}, of which `arrive` bytes arrive before the read ends
\* with `cause` (EOF only once the whole stream has arrived)
ReadCalls ==
    { c \in [op : {"ReadInitialRecord"}, stream : SeqsUpTo({0, 2, 22}, MaxStream),
             arrive : 0..MaxStream, cause : {ErrEOF, ErrTimeout},
             maxSize : 1..MaxSizeArg] :
        /\ c.arrive <= Len(c.stream)
        /\ c.cause = ErrEOF => c.arrive = Len(c.stream) }

InitRead ==
    /\ NoSession
    /\ call \in ReadCalls
    /\ ret = <<>>

\* record, rawBytes, err := ReadInitialRecord(conn, timeout, maxSize)
CallRead ==
    /\ call.op = "ReadInitialRecord"
    /\ ret = <<>>
    /\ ret' = << ReadInitialRecord(Take(call.stream, call.arrive), call.cause,
                                   call.maxSize) >>
    /\ UNCHANGED <<handlerVars, call, runVars>>

SpecRead == InitRead /\ [][CallRead]_vars

\* the gap bounds handed to selectGapDuration, validated or not
GapCalls == [op : {"selectGapDuration"}, min : (0 - 1)..MaxGap, max : (0 - 1)..MaxGap]

InitGap ==
    /\ NoSession
    /\ call \in GapCalls
    /\ ret = <<>>

\* gap := selectGapDuration(min, max)
CallGap ==
    /\ call.op = "selectGapDuration"
    /\ ret = <<>>
    /\ \E n \in GapDraws(call.min, call.max) :
         ret' = << selectGapDuration(call.min, call.max, n) >>
    /\ UNCHANGED <<handlerVars, call, runVars>>

SpecGap == InitGap /\ [][CallGap]_vars

\* the record sequences handed to WriteRecords: up to MaxRecords handshake
\* records of at most one payload byte
WriteRecordSeqs ==
    { rs \in SeqsUpTo({ Rec(recordTypeHandshake, 769, p) : p \in SeqsUpTo({0, 1}, 1) },
                      MaxRecords) : rs # <<>> }

\* handleConn is about to call tls.WriteRecords(upstream, records, gapMin, gapMax)
InitWrite ==
    /\ cfg \in { [FirstFragment |-> 0, MaxRecordSize |-> MaxRecord, GapMin |-> lo,
                   GapMax |-> hi, ReadTimeout |-> 1] :
                    lo \in (0 - 1)..MaxGap, hi \in (0 - 1)..MaxGap }
    /\ records \in WriteRecordSeqs
    /\ clientStream = <<>>
    /\ serverStream = <<>>
    /\ halfClose = TRUE
    /\ ctxDone = FALSE
    /\ pc = "write"
    /\ watcher = "armed"
    /\ clientSock = "open"
    /\ upstreamSock = "open"
    /\ upstreamShut = FALSE
    /\ clientShut = FALSE
    /\ rpos = 0
    /\ record = <<>>
    /\ rawBytes = <<>>
    /\ err = NilError
    /\ writeErr = NilError
    /\ widx = 0
    /\ upstreamRecv = <<>>
    /\ c2u = "idle"
    /\ u2c = "idle"
    /\ spos = 0
    /\ clientRecv = <<>>
    /\ c2uErr = NilError
    /\ u2cErr = NilError
    /\ sleeps = <<>>
    /\ clientDeadline = "none"
    /\ c2uBuf = <<>>
    /\ u2cBuf = <<>>
    /\ NoCall
    /\ NoRun

\* the longest stream of either peer handed to pipeBidirectional on its own
MaxRelay == 2

\* handleConn has called pipe on two fresh connections, which implement
\* CloseWrite or not
InitRelay ==
    /\ cfg \in Configs
    /\ cfg.FirstFragment = 0
    /\ clientStream \in SeqsUpTo({0, 1}, MaxRelay)
    /\ serverStream \in SeqsUpTo({2, 3}, MaxRelay)
    /\ halfClose \in BOOLEAN
    /\ ctxDone = FALSE
    /\ pc = "pipe"
    /\ watcher = "armed"
    /\ clientSock = "open"
    /\ upstreamSock = "open"
    /\ upstreamShut = FALSE
    /\ clientShut = FALSE
    /\ rpos = 0
    /\ record = <<>>
    /\ rawBytes = <<>>
    /\ err = ErrTimeout
    /\ writeErr = NilError
    /\ records = <<>>
    /\ widx = 0
    /\ upstreamRecv = <<>>
    /\ c2u = "copy"
    /\ u2c = "copy"
    /\ spos = 0
    /\ clientRecv = <<>>
    /\ c2uErr = NilError
    /\ u2cErr = NilError
    /\ sleeps = <<>>
    /\ clientDeadline = "none"
    /\ c2uBuf = <<>>
    /\ u2cBuf = <<>>
    /\ NoCall
    /\ NoRun

NextRelay ==
    \/ C2URead
    \/ C2UWrite
    \/ C2UWriteFail
    \/ C2UEnd
    \/ U2CRead
    \/ U2CWrite
    \/ U2CWriteFail
    \/ U2CEnd
    \/ PipeDone

SpecRelay == InitRelay /\ [][NextRelay]_vars

SpecWrite == InitWrite /\ [][WriteRecordOk \/ WakeUp \/ WriteRecordFail]_vars

----------------------------------------------------------------------------
(* Server.Run: the accept loop and the handlers it starts.  Each handler is
   followed step by step, by the outcome of each step; the bytes it moves are
   those of the single handler above. *)

\* most connections Run accepts
MaxConns == 2
\* most connections Run accepts where its shutdown is followed to the end
MaxInFlight == 1

\* handleConn has been started on a fresh connection
NewConn ==
    [pc |-> "dial", client |-> "open", upstream |-> "none", watcher |-> "none",
     c2u |-> "idle", u2c |-> "idle"]

\* handleConn returns: its defers close stopCh, the upstream and the client,
\* then wg.Done
ConnReturn(c) ==
    [c EXCEPT !.pc = "done",
              !.client = "closed",
              !.upstream = IF @ = "none" THEN "none" ELSE "closed",
              !.watcher = IF @ = "armed" THEN "stopped" ELSE @]

\* pipe(connLog, client, upstream): both copy goroutines are started
ConnPipe(c) == [c EXCEPT !.pc = "pipe", !.c2u = "copy", !.u2c = "copy"]

\* the handler of connection i moves to c; nothing else changes
ConnStep(i, c) ==
    /\ conns' = [conns EXCEPT ![i] = c]
    /\ UNCHANGED <<handlerVars, call, ret, listener, runPc, acceptErr, runErr,
                   runCtx, closer>>

InitRun ==
    /\ cfg \in Configs
    /\ cfg.FirstFragment = MaxFirst
    /\ IdleHandler
    /\ NoCall
    /\ listener = "none"
    /\ runPc = "listen"
    /\ acceptErr = NilError
    /\ runErr = NilError
    /\ runCtx = "live"
    /\ closer = "none"
    /\ conns = <<>>

\* newTransparentListener succeeds: defer listener.Close, start the goroutine
\* that waits for ctx.Done
ListenOk ==
    /\ runPc = "listen"
    /\ listener' = "open"
    /\ closer' = "armed"
    /\ runPc' = "accept"
    /\ UNCHANGED <<handlerVars, call, ret, acceptErr, runErr, runCtx, conns>>

\* newTransparentListener fails: Run returns the error
ListenFail ==
    /\ runPc = "listen"
    /\ runErr' = ErrListen
    /\ runPc' = "returned"
    /\ UNCHANGED <<handlerVars, call, ret, listener, acceptErr, runCtx, closer, conns>>

\* the process-wide context is cancelled
RunCancel ==
    /\ runCtx = "live"
    /\ runPc # "returned"
    /\ runCtx' = "done"
    /\ UNCHANGED <<handlerVars, call, ret, listener, runPc, acceptErr, runErr,
                   closer, conns>>

\* <-ctx.Done(); listener.Close()
CloserFires ==
    /\ closer = "armed"
    /\ runCtx = "done"
    /\ listener' = "closed"
    /\ closer' = "fired"
    /\ UNCHANGED <<handlerVars, call, ret, runPc, acceptErr, runErr, runCtx, conns>>

\* listener.Accept returns a connection: wg.Add(1), go handleConn
AcceptConn(limit) ==
    /\ runPc = "accept"
    /\ listener = "open"
    /\ Len(conns) < limit
    /\ conns' = Append(conns, NewConn)
    /\ acceptErr' = NilError
    /\ UNCHANGED <<handlerVars, call, ret, listener, runPc, runErr, runCtx, closer>>

\* a bug: an accept error is returned although shutdown was requested
AcceptVerdictIgnoresShutdown(e, done) ==
    IF e = ErrTimeout
    THEN [next |-> "backoff", err |-> NilError]
    ELSE [next |-> "wait", err |-> e]

\* what Run does with the error e of listener.Accept, the context being done
\* or not: return nil, back off and retry, or return the error
AcceptVerdict(e, done) ==
    IF done \/ e = ErrClosed
    THEN [next |-> "wait", err |-> NilError]
    ELSE IF e = ErrTimeout
    THEN [next |-> "backoff", err |-> NilError]
    ELSE [next |-> "wait", err |-> e]

\* listener.Accept returns an error: net.ErrClosed once the listener is closed,
\* a timeout or another error before
AcceptFail ==
    /\ runPc = "accept"
    /\ \E e \in {ErrClosed, ErrTimeout, ErrAccept} :
        /\ (e = ErrClosed) <=> (listener = "closed")
        /\ acceptErr' = e
        /\ runPc' = AcceptVerdict(e, runCtx = "done").next
        /\ runErr' = AcceptVerdict(e, runCtx = "done").err
    /\ UNCHANGED <<handlerVars, call, ret, listener, runCtx, closer, conns>>

\* time.Sleep(50 * time.Millisecond); continue
BackoffOver ==
    /\ runPc = "backoff"
    /\ runPc' = "accept"
    /\ UNCHANGED <<handlerVars, call, ret, listener, acceptErr, runErr, runCtx,
                   closer, conns>>

\* a bug: Run does not wait for its handlers
NoWait == TRUE

\* wg.Wait() of Run: every handler has called wg.Done
HandlersDone == \A i \in 1..Len(conns) : conns[i].pc = "done"

\* the deferred wg.Wait returns, the deferred listener.Close runs, Run returns
RunReturn ==
    /\ runPc = "wait"
    /\ HandlersDone
    /\ listener' = "closed"
    /\ runPc' = "returned"
    /\ UNCHANGED <<handlerVars, call, ret, acceptErr, runErr, runCtx, closer, conns>>

\* s.dialer.DialContext fails (refused, timed out, ctx cancelled): return
ConnDialFail(i) ==
    /\ conns[i].pc = "dial"
    /\ ConnStep(i, ConnReturn(conns[i]))

\* s.dialer.DialContext succeeds: defer upstream.Close, start the watcher
ConnDialOk(i) ==
    /\ conns[i].pc = "dial"
    /\ runCtx = "live"
    /\ ConnStep(i, [conns[i] EXCEPT !.pc = "read", !.upstream = "open",
                                    !.watcher = "armed"])

\* tls.ReadInitialRecord returns: a record, an error with captured bytes, or
\* an error with none; when the watcher closed the client while the read
\* waited, the bytes taken before the close decide which
ConnRead(i) ==
    /\ conns[i].pc = "read"
    /\ \E outcome \in {"record", "partial", "empty"} :
        /\ ConnStep(i, CASE outcome = "record" -> [conns[i] EXCEPT !.pc = "split"]
                         [] outcome = "partial" ->
                              [conns[i] EXCEPT !.pc = "forward"]
                         [] outcome = "empty" ->
                              ConnPipe(conns[i]))

\* record.SplitClientHello returns: an error, one record, or two
ConnSplit(i) ==
    /\ conns[i].pc = "split"
    /\ \E outcome \in {"error", "one", "two"} :
        /\ outcome = "two" => cfg.FirstFragment > 0
        /\ ConnStep(i, CASE outcome = "error" ->
                              [conns[i] EXCEPT !.pc = "forward"]
                         [] outcome = "one" -> [conns[i] EXCEPT !.pc = "write2"]
                         [] outcome = "two" -> [conns[i] EXCEPT !.pc = "write1"])

\* upstream.Write(rawBytes) succeeds, then pipe
ConnForwardOk(i) ==
    /\ conns[i].pc = "forward"
    /\ conns[i].upstream = "open"
    /\ ConnStep(i, ConnPipe(conns[i]))

\* upstream.Write(rawBytes) fails: return
ConnForwardFail(i) ==
    /\ conns[i].pc = "forward"
    /\ ConnStep(i, ConnReturn(conns[i]))

\* tls.WriteRecords: a record is written; after the first of two the gap is
\* drawn and, if positive, slept; after the last one, pipe
ConnWriteOk(i) ==
    /\ conns[i].pc \in {"write1", "write2"}
    /\ conns[i].upstream = "open"
    /\ IF conns[i].pc = "write1"
       THEN \E gap \in GapAfter(0, 2, cfg.GapMin, cfg.GapMax) :
              ConnStep(i, [conns[i] EXCEPT !.pc = IF gap > 0 THEN "sleep" ELSE "write2"])
       ELSE ConnStep(i, ConnPipe(conns[i]))

\* tls.WriteRecords: time.Sleep(gap) returns
ConnWake(i) ==
    /\ conns[i].pc = "sleep"
    /\ ConnStep(i, [conns[i] EXCEPT !.pc = "write2"])

\* tls.WriteRecords: a write fails: return
ConnWriteFail(i) ==
    /\ conns[i].pc \in {"write1", "write2"}
    /\ ConnStep(i, ConnReturn(conns[i]))

\* the socket a copy direction reads from
CopySource(c, d) == IF d = "c2u" THEN c.client ELSE c.upstream

\* io.Copy of direction d ends while its source is open (the peer's EOF, or a
\* failed write), then closeWrite
ConnCopyEnd(i, d) ==
    /\ conns[i][d] = "copy"
    /\ CopySource(conns[i], d) = "open"
    /\ ConnStep(i, [conns[i] EXCEPT ![d] = "done"])

\* io.Copy of direction d fails because its source is closed, then closeWrite
ConnCopyClosed(i, d) ==
    /\ conns[i][d] = "copy"
    /\ CopySource(conns[i], d) = "closed"
    /\ ConnStep(i, [conns[i] EXCEPT ![d] = "done"])

\* wg.Wait() of pipeBidirectional returns, pipe returns, handleConn returns
ConnPipeDone(i) ==
    /\ conns[i].pc = "pipe"
    /\ conns[i].c2u = "done"
    /\ conns[i].u2c = "done"
    /\ ConnStep(i, ConnReturn(conns[i]))

\* case <-ctx.Done(): client.Close()
ConnWatcherClient(i) ==
    /\ conns[i].watcher = "armed"
    /\ runCtx = "done"
    /\ ConnStep(i, [conns[i] EXCEPT !.watcher = "closing", !.client = "closed"])

\* a bug: the watcher closes the client only
ConnWatcherLeavesUpstream(i) ==
    /\ conns[i].watcher = "closing"
    /\ ConnStep(i, [conns[i] EXCEPT !.watcher = "fired"])

\* ... then upstream.Close()
ConnWatcherUpstream(i) ==
    /\ conns[i].watcher = "closing"
    /\ ConnStep(i, [conns[i] EXCEPT !.watcher = "fired", !.upstream = "closed"])

\* a step of the goroutine that runs handleConn on connection i
ConnMain(i) ==
    \/ ConnDialFail(i)
    \/ ConnDialOk(i)
    \/ ConnRead(i)
    \/ ConnSplit(i)
    \/ ConnForwardOk(i)
    \/ ConnForwardFail(i)
    \/ ConnWriteOk(i)
    \/ ConnWake(i)
    \/ ConnWriteFail(i)
    \/ ConnPipeDone(i)

\* a step of the watcher goroutine of connection i
ConnWatcher(i) == ConnWatcherClient(i) \/ ConnWatcherUpstream(i)

\* a step of any goroutine started for an accepted connection
Handlers ==
    \E i \in 1..Len(conns) :
        \/ ConnMain(i)
        \/ ConnWatcher(i)
        \/ \E d \in {"c2u", "u2c"} : ConnCopyEnd(i, d) \/ ConnCopyClosed(i, d)

NextRun ==
    \/ ListenOk
    \/ ListenFail
    \/ RunCancel
    \/ CloserFires
    \/ AcceptConn(MaxConns)
    \/ AcceptFail
    \/ BackoffOver
    \/ RunReturn
    \/ Handlers

SpecRun == InitRun /\ [][NextRun]_vars

NextShutdown ==
    \/ ListenOk
    \/ ListenFail
    \/ RunCancel
    \/ CloserFires
    \/ AcceptConn(MaxInFlight)
    \/ AcceptFail
    \/ BackoffOver
    \/ RunReturn
    \/ Handlers

\* every goroutine keeps running: a step it can take is taken.  What the
\* peers and the network decide (a new connection, a timeout of Accept, the
\* end of a peer's stream, the cancellation) is under no obligation.
FairShutdown ==
    /\ WF_vars(ListenOk \/ ListenFail)
    /\ WF_vars(CloserFires)
    /\ WF_vars(listener = "closed" /\ AcceptFail)
    /\ WF_vars(BackoffOver)
    /\ WF_vars(RunReturn)
    /\ \A i \in 1..MaxInFlight :
        /\ WF_vars(i <= Len(conns) /\ ConnMain(i))
        /\ WF_vars(i <= Len(conns) /\ ConnWatcher(i))
        /\ \A d \in {"c2u", "u2c"} : WF_vars(i <= Len(conns) /\ ConnCopyClosed(i, d))

SpecShutdown == InitRun /\ [][NextShutdown]_vars /\ FairShutdown

----------------------------------------------------------------------------
(* internal/utils/config.go: the command line, parseGapRange, validateConfig.

   A Go int and a time.Duration are 64-bit two's complement integers: each is
   kept as its four 16-bit limbs, least significant first, so that products
   wrap as they do in Go.  A gap specification is kept as the parts that
   strings.Split(spec, ",") yields, each part blank, a word that is no
   integer, or the decimal text of an integer. *)

\* the 64-bit integer n, for -32768 <= n < 32768
Int64Of(n) == IF n >= 0 THEN <<n, 0, 0, 0>> ELSE <<65536 + n, 65535, 65535, 65535>>

Zero64 == Int64Of(0)

\* x < 0
Negative64(x) == x[4] >= 32768

\* x < y, signed
Less64(x, y) ==
    IF Negative64(x) # Negative64(y)
    THEN Negative64(x)
    ELSE \E i \in 1..4 : x[i] < y[i] /\ \A j \in (i + 1)..4 : x[j] = y[j]

\* x * k in 64 bits, for 0 <= k <= 1000: the carry out of the top limb is lost
Mul64(x, k) ==
    LET p1 == x[1] * k
        p2 == x[2] * k + p1 \div 65536
        p3 == x[3] * k + p2 \div 65536
        p4 == x[4] * k + p3 \div 65536
    IN  << p1 % 65536, p2 % 65536, p3 % 65536, p4 % 65536 >>

\* time.Duration(ms) * time.Millisecond: ms * 1000000 in 64 bits
Milliseconds(ms) == Mul64(Mul64(ms, 1000), 1000)


\* the parts of a gap specification
BlankPart == [kind |-> "blank", val |-> Zero64]
WordPart == [kind |-> "word", val |-> Zero64]
IntPart(x) == [kind |-> "int", val |-> x]

\* strings.TrimSpace(spec) == "": no part, or a single blank one
TrimmedEmpty(spec) == spec = <<>> \/ (Len(spec) = 1 /\ spec[1].kind = "blank")

\* strconv.Atoi of a trimmed part, where an empty part reads as "0"
Atoi(part) ==
    CASE part.kind = "blank" -> [val |-> Zero64, ok |-> TRUE]
      [] part.kind = "word" -> [val |-> Zero64, ok |-> FALSE]
      [] part.kind = "int" -> [val |-> part.val, ok |-> TRUE]

\* parseGapRange(spec)
parseGapRange(spec) ==
    IF TrimmedEmpty(spec)
    THEN [min |-> Zero64, max |-> Zero64, err |-> NilError]
    ELSE IF Len(spec) # 2
    THEN [min |-> Zero64, max |-> Zero64, err |-> "gap must be formatted as min,max"]
    ELSE LET minVal == Atoi(spec[1])
             maxVal == Atoi(spec[2])
         IN  IF ~minVal.ok
             THEN [min |-> Zero64, max |-> Zero64, err |-> "gap min must be an integer"]
             ELSE IF ~maxVal.ok
             THEN [min |-> Zero64, max |-> Zero64, err |-> "gap max must be an integer"]
             ELSE IF Negative64(minVal.val) \/ Negative64(maxVal.val)
             THEN [min |-> Zero64, max |-> Zero64, err |-> "gap values must be non-negative"]
             ELSE IF maxVal.val # Zero64 /\ Less64(maxVal.val, minVal.val)
             THEN [min |-> Zero64, max |-> Zero64, err |-> "gap max must not be less than min"]
             ELSE [min |-> minVal.val, max |-> maxVal.val, err |-> NilError]

\* strings.ToLower(strings.TrimSpace(level)), on the levels handed in
LowerTrim(level) ==
    CASE level = " INFO " -> "info"
      [] level = "Warning" -> "warning"
      [] OTHER -> level

\* validateConfig(config): the error, and the log level it leaves in config
validateConfig(config) ==
    LET level == LowerTrim(config.LogLevel)
        bad(e) == [err |-> e, LogLevel |-> config.LogLevel]
    IN  IF config.ListenAddr = "" THEN bad("listen address must not be empty")
        ELSE IF config.FirstFragment < 0 THEN bad("first fragment length must be >= 0")
        ELSE IF config.MaxRecordSize <= 0 THEN bad("max record size must be positive")
        ELSE IF config.Mark < 0 THEN bad("SO_MARK must be >= 0")
        ELSE IF Negative64(config.GapMin) \/ Negative64(config.GapMax)
        THEN bad("gaps must not be negative")
        ELSE IF Less64(config.GapMax, config.GapMin) THEN bad("gap-min must not exceed gap-max")
        ELSE IF ~Less64(Zero64, config.ReadTimeout) THEN bad("read timeout must be positive")
        ELSE IF ~Less64(Zero64, config.DialTimeout) THEN bad("dial timeout must be positive")
        ELSE IF level \notin {"debug", "info", "warn", "warning", "error"}
        THEN [err |-> "unsupported log level", LogLevel |-> level]
        ELSE [err |-> NilError,
              LogLevel |-> IF level = "warning" THEN "warn" ELSE level]

\* the RunE of NewRootCommand(run), on the flags parsed into `flags`, with a
\* run function (if any) that returns flags.runErr: whether run was invoked,
\* the error returned, and the Config at that point
RunE(flags) ==
    LET gap == parseGapRange(flags.gapSpec)
        config == [ListenAddr |-> flags.listen,
                   FirstFragment |-> flags.first,
                   MaxRecordSize |-> flags.max,
                   Mark |-> flags.mark,
                   LogLevel |-> flags.logLevel,
                   GapMin |-> Milliseconds(gap.min),
                   GapMax |-> Milliseconds(gap.max),
                   ReadTimeout |-> Milliseconds(flags.readTimeoutMs),
                   DialTimeout |-> Milliseconds(flags.dialTimeoutMs)]
        valid == validateConfig(config)
        checked == [config EXCEPT !.LogLevel = valid.LogLevel]
    IN  IF gap.err # NilError
        THEN [ran |-> FALSE, err |-> gap.err, config |-> <<>>]
        ELSE IF valid.err # NilError
        THEN [ran |-> FALSE, err |-> valid.err, config |-> <<checked>>]
        ELSE IF ~flags.hasRun
        THEN [ran |-> FALSE, err |-> "no run function provided", config |-> <<checked>>]
        ELSE [ran |-> TRUE, err |-> flags.runErr, config |-> <<checked>>]

\* 2^58, whose product with 1000000 is 15625 * 2^64
TwoTo58 == <<0, 0, 0, 1024>>

\* 1 - 2^58, whose product with 1000000 wraps to 1000000
OneMinusTwoTo58 == <<1, 0, 0, 64512>>

\* the parts a gap specification is made of
GapParts ==
    { BlankPart, WordPart }
        \cup { IntPart(Int64Of(n)) : n \in (0 - 1)..2 }
        \cup { IntPart(TwoTo58) }

\* the gap specifications: empty, and one to three parts
GapSpecs == SeqsUpTo(GapParts, 2) \cup { <<IntPart(Int64Of(1)), BlankPart, BlankPart>> }

\* the flags handed to the command, whether it was built with a run function,
\* and what that function returns (nil, or the error of Server.Run)
FlagSets ==
  { f \in
    [op : {"RunE"},
     gapSpec : GapSpecs,
     readTimeoutMs : { Int64Of(0), Int64Of(250), Int64Of(0 - 1), OneMinusTwoTo58 },
     dialTimeoutMs : { Int64Of(0), Int64Of(5000) },
     first : {0 - 1, 0, 3},
     max : {0, 16384},
     mark : {0 - 1, 102},
     listen : {"", ":15001"},
     logLevel : {"info", " INFO ", "Warning", "trace"},
     hasRun : BOOLEAN,
     runErr : {NilError, ErrListen}] : f.hasRun \/ f.runErr = NilError }

InitConfig ==
    /\ NoSession
    /\ call \in FlagSets
    /\ ret = <<>>

\* cmd.Execute(): RunE runs on the parsed flags
CallRunE ==
    /\ call.op = "RunE"
    /\ ret = <<>>
    /\ ret' = << RunE(call) >>
    /\ UNCHANGED <<handlerVars, call, runVars>>

SpecConfig == InitConfig /\ [][CallRunE]_vars

----------------------------------------------------------------------------
(* Properties of SplitClientHello, under SpecSplit *)

\* the call of SplitClientHello has returned
SplitReturned == call.op = "SplitClientHello" /\ ret # <<>>

\* rec is a valid ClientHello record: a handshake whose message type is
\* ClientHello and whose 24-bit body length plus 4 is the payload length
IsClientHello(rec) ==
    /\ rec.ContentType = 22
    /\ Len(rec.Payload) >= 4
    /\ rec.Payload[1] = 1
    /\ rec.Payload[2] * 65536 + rec.Payload[3] * 256 + rec.Payload[4] + 4 = Len(rec.Payload)

\* C3 - split completeness: for a valid ClientHello record and
\* 0 < first < len(payload), SplitClientHello returns exactly two records with
\* payloads payload[0, first) and payload[first, len), whose concatenation is
\* the payload, both with the content type and version of the input.
C3_SplitCompleteness ==
    (SplitReturned /\ IsClientHello(call.rec)
        /\ 0 < call.first /\ call.first < Len(call.rec.Payload))
    => LET out == ret[1].records
           p == call.rec.Payload
       IN  /\ ret[1].err = NilError
           /\ Len(out) = 2
           /\ out[1].Payload = SubSeq(p, 1, call.first)
           /\ out[2].Payload = SubSeq(p, call.first + 1, Len(p))
           /\ Len(out[1].Payload) = call.first
           /\ Len(out[2].Payload) = Len(p) - call.first
           /\ out[1].Payload \o out[2].Payload = p
           /\ \A i \in 1..2 : /\ out[i].ContentType = call.rec.ContentType
                              /\ out[i].Version = call.rec.Version

\* a ClientHello of 6 bytes was split at 3 into 3 and 3 bytes
C3_Witness ==
    /\ SplitReturned
    /\ IsClientHello(call.rec)
    /\ Len(call.rec.Payload) = 6
    /\ call.first = 3
    /\ Len(ret[1].records) = 2
    /\ Len(ret[1].records[2].Payload) = 3

\* C4 - split no-op at the boundary: for a valid ClientHello record, first <= 0
\* or first >= len(payload) yields exactly one record with the content type,
\* version and payload of the input, and the input record is unchanged.
C4_SplitNoOpAtBoundary ==
    /\ [](  (SplitReturned /\ IsClientHello(call.rec)
               /\ (call.first <= 0 \/ call.first >= Len(call.rec.Payload)))
           => /\ ret[1].err = NilError
              /\ Len(ret[1].records) = 1
              /\ ret[1].records[1].ContentType = call.rec.ContentType
              /\ ret[1].records[1].Version = call.rec.Version
              /\ ret[1].records[1].Payload = call.rec.Payload )
    /\ [][call'.rec = call.rec]_vars

\* splitting was disabled (first = 0) and one record came back
C4_Witness ==
    /\ SplitReturned
    /\ IsClientHello(call.rec)
    /\ call.first = 0
    /\ Len(call.rec.Payload) = 5
    /\ Len(ret[1].records) = 1

\* C5 - SplitClientHello classifies every record, for every first, by four
\* checks in order: not a handshake; handshake too short; not a ClientHello;
\* length mismatch. It returns no records when one fails and succeeds only
\* when all four pass.
C5_SplitClassification ==
    SplitReturned =>
        LET rec == call.rec
            p == rec.Payload
            e == ret[1].err
        IN  /\ (e = ErrNotHandshake) <=> (rec.ContentType # 22)
            /\ (e = ErrHandshakeTooShort) <=> (rec.ContentType = 22 /\ Len(p) < 4)
            /\ (e = ErrNotClientHello) <=>
                   (rec.ContentType = 22 /\ Len(p) >= 4 /\ p[1] # 1)
            /\ (e = ErrLengthMismatch) <=>
                   (/\ rec.ContentType = 22 /\ Len(p) >= 4 /\ p[1] = 1
                    /\ p[2] * 65536 + p[3] * 256 + p[4] + 4 # Len(p))
            /\ (e = NilError) <=> IsClientHello(rec)
            /\ e # NilError => ret[1].records = <<>>
            /\ e = NilError => Len(ret[1].records) \in {1, 2}

\* a handshake whose body length has a non-zero high byte was rejected
C5_Witness ==
    /\ SplitReturned
    /\ call.rec.ContentType = 22
    /\ Len(call.rec.Payload) = 4
    /\ call.rec.Payload[1] = 1
    /\ call.rec.Payload[2] = 1
    /\ call.first = 2
    /\ ret[1].err = ErrLengthMismatch

----------------------------------------------------------------------------
(* Properties of ReadInitialRecord, under SpecRead *)

\* the call of ReadInitialRecord has returned
ReadReturned == call.op = "ReadInitialRecord" /\ ret # <<>>

\* C9 - on every outcome of ReadInitialRecord the raw bytes it returns are
\* exactly the bytes it consumed from the stream, in order: the partial header
\* on a header failure, the header alone on a too-large length, the header and
\* the partial payload on a payload failure, header and payload on success,
\* where the record's content type, version and payload are those the raw
\* bytes encode.
C9_RawBytesAreConsumedBytes ==
    ReadReturned =>
        LET r == ret[1]
            arrived == SubSeq(call.stream, 1, call.arrive)
            declared == arrived[4] * 256 + arrived[5]
        IN  /\ r.raw = SubSeq(call.stream, 1, r.consumed)
            /\ r.consumed <= call.arrive
            /\ IF call.arrive < 5
               THEN r.err # NilError /\ r.raw = arrived /\ r.record = <<>>
               ELSE IF declared > call.maxSize
               THEN r.err = ErrRecordTooLarge /\ r.raw = SubSeq(arrived, 1, 5)
                    /\ r.record = <<>>
               ELSE IF call.arrive < 5 + declared
               THEN r.err \notin {NilError, ErrRecordTooLarge} /\ r.raw = arrived
                    /\ r.record = <<>>
               ELSE /\ r.err = NilError
                    /\ r.raw = SubSeq(arrived, 1, 5 + declared)
                    /\ Len(r.record) = 1
                    /\ r.record[1].ContentType = r.raw[1]
                    /\ r.record[1].Version = r.raw[2] * 256 + r.raw[3]
                    /\ r.record[1].Payload = SubSeq(r.raw, 6, Len(r.raw))

\* a read ended inside the payload and returned the header and one payload byte
C9_Witness ==
    /\ ReadReturned
    /\ call.arrive = 6
    /\ call.maxSize = 3
    /\ call.stream[4] = 0
    /\ call.stream[5] = 2
    /\ ret[1].err = ErrTimeout
    /\ Len(ret[1].raw) = 6

----------------------------------------------------------------------------
(* Properties of handleConn and the relay, under Spec *)

\* the dial succeeded
Dialed == upstreamSock # "none"

\* ReadInitialRecord has returned an error
ReadFailed == Dialed /\ pc \notin {"dial", "read", "reading"} /\ record = <<>>

\* SplitClientHello has returned an error
SplitFailed == record # <<>> /\ pc # "split" /\ err # NilError

\* SplitClientHello has returned records
SplitDone == record # <<>> /\ pc # "split" /\ err = NilError

\* no write to the upstream socket has failed
NoUpstreamWriteFailed == writeErr = NilError /\ c2uErr # ErrWrite

\* the relay has been started
RelayStarted == c2u # "idle" /\ u2c # "idle"

\* the bytes the upstream has received, followed by those the relay has read
\* from the client and is about to write
TowardsUpstream == upstreamRecv \o c2uBuf

\* the first n records of a byte stream, as its receiver parses them, and what
\* follows them
RECURSIVE Deframe(_, _)
Deframe(wire, n) ==
    IF n = 0
    THEN [ok |-> TRUE, recs |-> <<>>, rest |-> wire]
    ELSE LET r == ReadInitialRecord(wire, ErrEOF, 65535)
         IN  IF r.err # NilError
             THEN [ok |-> FALSE, recs |-> <<>>, rest |-> wire]
             ELSE LET d == Deframe(SubSeq(wire, r.consumed + 1, Len(wire)), n - 1)
                  IN  [ok |-> d.ok, recs |-> <<r.record[1]>> \o d.recs, rest |-> d.rest]

RECURSIVE Payloads(_)
Payloads(rs) == IF rs = <<>> THEN <<>> ELSE Head(rs).Payload \o Payloads(Tail(rs))

\* every byte consumed from the client has reached the upstream once, in order
\* (or is the chunk the relay holds between its read and its write): verbatim,
\* or (after a split) the record's payload as the payloads of the records the
\* upstream receives, under the record's content type and version, followed
\* verbatim by the bytes consumed after the record
EmittedOnce ==
    IF records = <<>>
    THEN TowardsUpstream = SubSeq(clientStream, 1, rpos)
    ELSE LET d == Deframe(TowardsUpstream, Len(records))
         IN  /\ d.ok
             /\ Payloads(d.recs) = SubSeq(clientStream, 6, Len(rawBytes))
             /\ \A i \in 1..Len(d.recs) :
                  /\ d.recs[i].ContentType = clientStream[1]
                  /\ d.recs[i].Version = clientStream[2] * 256 + clientStream[3]
             /\ d.rest = SubSeq(clientStream, Len(rawBytes) + 1, rpos)

\* C1 - no data loss under fallback: when handleConn falls back (the read
\* failed with captured bytes, or the split failed) and the writes to upstream
\* succeed, the bytes the upstream has received from the forward of rawBytes
\* and the relay (with the chunk the relay has read and not yet written) are
\* exactly the bytes consumed from the client, in order, and once the relay
\* has read the client to its end they are the whole stream.
C1_NoDataLossUnderFallback ==
    (/\ (ReadFailed /\ rawBytes # <<>>) \/ SplitFailed
     /\ pc \in {"pipe", "done"}
     /\ NoUpstreamWriteFailed)
    => /\ TowardsUpstream = SubSeq(clientStream, 1, rpos)
       /\ IsPrefix(rawBytes, upstreamRecv)
       /\ rpos >= Len(rawBytes)
       /\ (c2u = "done" /\ c2uErr = NilError) => upstreamRecv = clientStream

\* a record was cut off inside its payload; the 7 bytes read were forwarded
\* and the relay carried the other 3
C1_Witness ==
    /\ ReadFailed
    /\ err = ErrTimeout
    /\ Len(rawBytes) = 7
    /\ Len(clientStream) = 10
    /\ c2u = "done"
    /\ c2uErr = NilError
    /\ upstreamRecv = clientStream

\* C2 as stated - in every execution, a failing upstream write included, every
\* byte consumed from the client has been emitted to upstream exactly once, in
\* order, when the session has ended.
C2_NoByteEverDropped ==
    (Dialed /\ pc = "done") => EmittedOnce

\* C2 as amended - in every execution in which no write to upstream has failed,
\* every byte consumed from the client has been emitted to upstream exactly
\* once, in order: the payload inside the split records (which carry the
\* record's content type and version), everything else verbatim.
C2_NoByteDroppedUnlessWriteFails ==
    (Dialed /\ pc \in {"pipe", "done"} /\ NoUpstreamWriteFailed) => EmittedOnce

\* a ClientHello was split in two, written, and the relay carried the byte
\* that followed it
C2_Witness ==
    /\ SplitDone
    /\ Len(records) = 2
    /\ pc = "done"
    /\ NoUpstreamWriteFailed
    /\ c2uErr = NilError
    /\ rpos = Len(clientStream)
    /\ rpos > Len(rawBytes)

\* C6 - every kind of split failure has the same recovery: whichever error
\* SplitClientHello returned, handleConn forwards the raw bytes of the record
\* verbatim (while the relay is not running), and then starts the relay; only
\* a failure of that write ends the session instead.
C6_SplitFailureForwardsRaw ==
    SplitFailed =>
        /\ err \in {ErrNotHandshake, ErrNotClientHello, ErrHandshakeTooShort,
                    ErrLengthMismatch}
        /\ records = <<>>
        /\ Len(rawBytes) = 5 + Len(record[1].Payload)
        /\ rawBytes = SubSeq(clientStream, 1, Len(rawBytes))
        /\ CASE pc = "fwdRaw" ->
                  /\ upstreamRecv = <<>>
                  /\ ~RelayStarted
             [] pc = "pipe" ->
                  /\ writeErr = NilError
                  /\ IsPrefix(rawBytes, upstreamRecv)
                  /\ RelayStarted
             [] pc = "done" ->
                  IF writeErr = NilError
                  THEN /\ IsPrefix(rawBytes, upstreamRecv)
                       /\ c2u = "done" /\ u2c = "done"
                  ELSE /\ Len(upstreamRecv) < Len(rawBytes)
                       /\ IsPrefix(upstreamRecv, rawBytes)
                       /\ c2u = "idle" /\ u2c = "idle"
             [] OTHER -> FALSE

\* a handshake with a wrong body length was forwarded as read, and the relay runs
C6_Witness ==
    /\ SplitFailed
    /\ err = ErrLengthMismatch
    /\ pc = "pipe"
    /\ upstreamRecv = rawBytes
    /\ Len(rawBytes) = 9

\* C7 - a read that fails with zero captured bytes abandons the
\* session: nothing is written to upstream, the relay is not started, both
\* connections are closed.
C7_EmptyReadAbandons ==
    (ReadFailed /\ rawBytes = <<>>)
    => /\ upstreamRecv = <<>>
       /\ c2u = "idle" /\ u2c = "idle"
       /\ pc = "done"
       /\ clientSock = "closed" /\ upstreamSock = "closed"

\* C8 - oversized record: exactly when the length field of the header read
\* exceeds MaxRecordSize, ReadInitialRecord fails with ErrRecordTooLarge,
\* having consumed the 5 header bytes and nothing else; handleConn forwards
\* those 5 bytes, and the relay carries the payload that was not read.
C8_OversizedRecord ==
    /\ (Dialed /\ pc \notin {"dial", "read", "reading"} /\ Len(rawBytes) >= 5
          /\ clientStream[4] * 256 + clientStream[5] > cfg.MaxRecordSize)
       => err = ErrRecordTooLarge
    /\ (Dialed /\ err = ErrRecordTooLarge)
       => /\ record = <<>>
          /\ clientStream[4] * 256 + clientStream[5] > cfg.MaxRecordSize
          /\ rawBytes = SubSeq(clientStream, 1, 5)
          /\ pc \in {"fwdPartial", "pipe", "done"}
          /\ pc = "fwdPartial" => rpos = 5 /\ upstreamRecv = <<>> /\ ~RelayStarted
          /\ (pc # "fwdPartial" /\ writeErr = NilError)
             => /\ RelayStarted
                /\ IsPrefix(rawBytes, upstreamRecv)
                /\ c2uErr # ErrWrite => TowardsUpstream = SubSeq(clientStream, 1, rpos)
          /\ writeErr # NilError
             => pc = "done" /\ ~RelayStarted /\ Len(upstreamRecv) < 5

\* a header declaring more than the cap was forwarded alone, and the relay
\* carried the 5 payload bytes behind it
C8_Witness ==
    /\ Dialed
    /\ err = ErrRecordTooLarge
    /\ Len(clientStream) = 10
    /\ c2u = "done"
    /\ c2uErr = NilError
    /\ writeErr = NilError
    /\ upstreamRecv = clientStream

\* the steps of handleConn, in order
Rank(p) ==
    CASE p = "dial" -> 0
      [] p \in {"read", "reading"} -> 1
      [] p = "split" -> 2
      [] p \in {"fwdPartial", "fwdRaw", "write"} -> 3
      [] p = "pipe" -> 4
      [] p = "done" -> 5

\* the initial bytes handleConn writes to upstream: the records of the split,
\* or the raw bytes of a fallback
InitialWire == IF records # <<>> THEN WireOf(records) ELSE rawBytes

\* C10 - within a connection the steps run in order, each after the one before
\* has completed: the dial before the read, the read before the split, the
\* split before the write (or the forward), that before the relay; neither
\* copy loop has read from the client or written to upstream (or read from
\* upstream, or written to the client) before all initial bytes are written.
C10_StepsInOrder ==
    /\ [][ /\ Rank(pc') >= Rank(pc)
           /\ pc' # pc =>
                \/ pc = "dial" /\ pc' \in {"read", "done"}
                \/ pc = "read" /\ pc' = "reading"
                \/ pc = "reading" /\ pc' \in {"split", "fwdPartial", "pipe"}
                \/ pc = "split" /\ pc' \in {"write", "fwdRaw"}
                \/ pc \in {"fwdPartial", "fwdRaw", "write"} /\ pc' \in {"pipe", "done"}
                \/ pc = "pipe" /\ pc' = "done" ]_vars
    /\ [](/\ pc = "dial" => ~Dialed /\ rpos = 0
          /\ pc \in {"read", "reading", "split", "fwdPartial", "fwdRaw", "write", "pipe"}
               => Dialed
          /\ pc \in {"read", "reading"} => rawBytes = <<>> /\ upstreamRecv = <<>>
          /\ pc = "read" => rpos = 0
          /\ pc = "split" => record # <<>> /\ upstreamRecv = <<>>
          /\ pc = "write" => records # <<>> /\ upstreamRecv = WireOf(SubSeq(records, 1, widx))
          /\ pc \in {"fwdPartial", "fwdRaw"} => upstreamRecv = <<>>
          /\ Rank(pc) < 4 =>
               /\ c2u = "idle" /\ u2c = "idle"
               /\ c2uBuf = <<>> /\ u2cBuf = <<>>
               /\ pc # "reading" => rpos = Len(rawBytes)
               /\ spos = 0 /\ clientRecv = <<>>
          /\ pc = "done" /\ ~RelayStarted =>
               /\ c2u = "idle" /\ u2c = "idle"
               /\ rpos = Len(rawBytes)
               /\ spos = 0 /\ clientRecv = <<>>
               /\ IsPrefix(upstreamRecv, InitialWire)
          /\ RelayStarted =>
               /\ pc \in {"pipe", "done"}
               /\ writeErr = NilError
               /\ IsPrefix(InitialWire, upstreamRecv))

\* both records of a split were written before the relay read the next byte
\* from the client
C10_Witness ==
    /\ pc = "pipe"
    /\ Len(records) = 2
    /\ widx = 2
    /\ c2u = "copy"
    /\ rpos > Len(rawBytes)
    /\ Len(upstreamRecv) = Len(InitialWire) + 1

----------------------------------------------------------------------------
(* Properties of WriteRecords, under SpecWrite *)

\* C11 - WriteRecords sleeps at most once per call, only when it was handed
\* more than one record, only after the first record has been written and
\* before the second is; never after a later record, never for a single
\* record, and never when gapMax is 0, whatever gapMin is.
C11_SleepsAtMostOnce ==
    /\ Len(sleeps) <= 1
    /\ \A i \in 1..Len(sleeps) :
         /\ sleeps[i].after = 1
         /\ sleeps[i].gap > 0
         /\ Len(records) > 1
         /\ cfg.GapMax > 0
    /\ Sleeping => /\ widx = 1
                   /\ upstreamRecv = RecordHeader(records[1]) \o records[1].Payload
    /\ (sleeps # <<>> /\ ~Sleeping /\ writeErr = NilError)
         => Len(upstreamRecv) >= 5 + Len(records[1].Payload)
    /\ Len(records) = 1 => sleeps = <<>>
    /\ cfg.GapMax = 0 => sleeps = <<>>

\* three records were written with one sleep, after the first of them
C11_Witness ==
    /\ Len(records) = 3
    /\ widx = 3
    /\ Len(sleeps) = 1
    /\ sleeps[1].after = 1
    /\ sleeps[1].over
    /\ cfg.GapMin = 2
    /\ sleeps[1].gap = 3

----------------------------------------------------------------------------
(* Properties of selectGapDuration, under SpecGap *)

\* the call of selectGapDuration has returned
GapReturned == call.op = "selectGapDuration" /\ ret # <<>>

\* C12 - for every validated gap range 0 <= gapMin <= gapMax the duration
\* selectGapDuration returns lies in [gapMin, gapMax], every value of the range
\* is a possible result, and for the range [0, 0] it is 0.
C12_GapWithinRange ==
    (GapReturned /\ 0 <= call.min /\ call.min <= call.max)
    => /\ call.min <= ret[1] /\ ret[1] <= call.max
       /\ GapDurations(call.min, call.max) = call.min..call.max
       /\ (call.max = 0) => ret[1] = 0

\* the range [2, 5] gave its upper end
C12_Witness ==
    /\ GapReturned
    /\ call.min = 2
    /\ call.max = 5
    /\ ret[1] = 5

----------------------------------------------------------------------------
(* Properties of the relay *)

\* C13 (under Spec) - the relay completes only when both copy loops have
\* finished: handleConn leaves pipe only then; while one direction is at its
\* end and the other still flows, handleConn has closed neither socket (only a
\* cancellation closes them), and a direction that ended without an error has
\* carried its whole stream, whenever the other one ended.
C13_RelayWaitsForBoth ==
    /\ [][ (pc = "pipe" /\ pc' # "pipe")
             => /\ pc' = "done"
                /\ c2u = "done" /\ u2c = "done" ]_vars
    /\ []( /\ (pc = "pipe" /\ ~ctxDone)
               => clientSock = "open" /\ upstreamSock = "open"
           /\ (pc = "pipe" /\ c2u = "done" /\ upstreamSock = "open" /\ u2c = "copy")
               => (ENABLED (U2CRead \/ U2CWrite) \/ spos = Len(serverStream)
                     \/ ~ClientWritable)
           /\ (RelayStarted /\ u2c = "done" /\ u2cErr = NilError)
               => clientRecv = serverStream
           /\ (RelayStarted /\ c2u = "done" /\ c2uErr = NilError)
               => rpos = Len(clientStream) )

\* the client is at its end and half-closed towards upstream, while nothing of
\* the upstream's stream has been relayed yet
C13_Witness ==
    /\ pc = "pipe"
    /\ c2u = "done"
    /\ c2uErr = NilError
    /\ u2c = "copy"
    /\ spos < Len(serverStream)
    /\ clientSock = "open"
    /\ upstreamSock = "open"

\* C14 (under SpecRelay) - a relay direction closes its destination only when
\* its copy loop has ended, never before: with a graceful half-close it shuts
\* the write side and leaves the connection open for reading, otherwise it
\* closes the whole connection.
C14_CloseWriteAfterCopy ==
    /\ [][ /\ (upstreamShut' # upstreamShut \/ (upstreamSock' # upstreamSock /\ pc' = "pipe"))
               => c2u = "copy" /\ c2u' = "done"
           /\ (clientShut' # clientShut \/ (clientSock' # clientSock /\ pc' = "pipe"))
               => u2c = "copy" /\ u2c' = "done" ]_vars
    /\ []( /\ c2u = "copy" => ~upstreamShut /\ upstreamSock = "open"
           /\ u2c = "copy" => ~clientShut /\ clientSock = "open"
           /\ (c2u = "done" /\ pc = "pipe")
               => IF halfClose
                  THEN upstreamShut /\ upstreamSock = "open"
                  ELSE ~upstreamShut /\ upstreamSock = "closed"
           /\ (u2c = "done" /\ pc = "pipe")
               => IF halfClose
                  THEN clientShut /\ clientSock = "open"
                  ELSE ~clientShut /\ clientSock = "closed" )

\* the client -> upstream direction ended at EOF and shut the upstream's write
\* side; the upstream is still open and the other direction has read from it
C14_Witness ==
    /\ halfClose
    /\ c2u = "done"
    /\ c2uErr = NilError
    /\ upstreamShut
    /\ upstreamSock = "open"
    /\ u2c = "copy"
    /\ rpos = 2
    /\ spos = 1

----------------------------------------------------------------------------
(* Properties of handleConn, under Spec *)

\* C17 - a dial failure is terminal: handleConn closes the client connection
\* and stops, having read no byte from the client, written no byte anywhere,
\* and not started the relay.
C17_DialFailureIsTerminal ==
    (err = ErrDial)
    => /\ pc = "done"
       /\ clientSock = "closed"
       /\ upstreamSock = "none"
       /\ watcher = "none"
       /\ rpos = 0 /\ spos = 0
       /\ rawBytes = <<>> /\ record = <<>> /\ records = <<>>
       /\ upstreamRecv = <<>> /\ clientRecv = <<>>
       /\ c2u = "idle" /\ u2c = "idle"

\* the dial failed although the client had a whole ClientHello to send
C17_Witness ==
    /\ err = ErrDial
    /\ pc = "done"
    /\ Len(clientStream) = 10
    /\ clientSock = "closed"

\* C18 - the read timeout applies to the initial read only: once
\* ReadInitialRecord has returned, by whichever path, the client connection
\* has no read deadline, and no read of the relay fails on a timeout.
C18_DeadlineCleared ==
    /\ pc \notin {"dial", "read", "reading"} => clientDeadline = "none"
    /\ c2uErr # ErrTimeout
    /\ u2cErr # ErrTimeout

\* the initial read timed out after 3 bytes; the relay then read the rest of
\* the client's stream to its end
C18_Witness ==
    /\ ReadFailed
    /\ err = ErrTimeout
    /\ Len(rawBytes) = 3
    /\ c2u = "done"
    /\ c2uErr = NilError
    /\ rpos = Len(clientStream)
    /\ rpos > Len(rawBytes)

\* the bytes of `wire` that are payload of the records rs, written in order,
\* and what follows the last of them
RECURSIVE PayloadBytes(_, _)
PayloadBytes(wire, rs) ==
    IF rs = <<>>
    THEN wire
    ELSE IF Len(wire) <= 5
    THEN <<>>
    ELSE IF Len(wire) <= 5 + Len(Head(rs).Payload)
    THEN SubSeq(wire, 6, Len(wire))
    ELSE SubSeq(wire, 6, 5 + Len(Head(rs).Payload))
           \o PayloadBytes(SubSeq(wire, 6 + Len(Head(rs).Payload), Len(wire)), Tail(rs))

\* the bytes of the client the upstream has received: everything, or after a
\* split everything but the headers of the records written
ClientOrigin == PayloadBytes(upstreamRecv, records)

\* C20 - when a write of the initial bytes to upstream fails (WriteRecords, or
\* the forward of rawBytes on a fallback) the session is abandoned without the
\* relay; in every state the bytes of the client the upstream has received are
\* a prefix of the client's stream (after a split: of what follows the header).
C20_AbandonOnWriteFailure ==
    /\ writeErr # NilError
         => /\ pc = "done"
            /\ c2u = "idle" /\ u2c = "idle"
            /\ clientSock = "closed" /\ upstreamSock = "closed"
            /\ rpos = Len(rawBytes)
    /\ IF records = <<>>
       THEN IsPrefix(ClientOrigin, clientStream)
       ELSE IsPrefix(ClientOrigin, SubSeq(clientStream, 6, Len(clientStream)))

\* the second record of a split failed inside its payload
C20_Witness ==
    /\ writeErr = ErrWrite
    /\ Len(records) = 2
    /\ widx = 1
    /\ Len(upstreamRecv) = 6 + 5 + 1
    /\ pc = "done"

----------------------------------------------------------------------------
(* Properties of Server.Run *)

\* handleConn on connection i has returned and left no socket open
ConnClosed(i) ==
    /\ conns[i].pc = "done"
    /\ conns[i].client = "closed"
    /\ conns[i].upstream # "open"

\* C15 (under SpecShutdown) - shutdown liveness: once the process-wide context
\* is cancelled, the listener gets closed and the accept loop stops, the
\* sockets of every session in flight get closed, in whichever step it is,
\* every handler terminates, and Run returns.
C15_ShutdownLiveness ==
    (runCtx = "done")
    ~> (/\ runPc = "returned"
        /\ listener # "open"
        /\ \A i \in 1..Len(conns) : ConnClosed(i))

\* Run has returned after a cancellation that found a session inside its gap
\* sleep or later: the watcher closed its sockets
C15_Witness ==
    /\ runCtx = "done"
    /\ runPc = "returned"
    /\ acceptErr = ErrClosed
    /\ Len(conns) = 1
    /\ conns[1].watcher = "fired"
    /\ conns[1].c2u = "idle"
    /\ ConnClosed(1)

\* C16 (under SpecRun) - Run never returns while a handler is running: when
\* Run has returned, after a cancellation or after a listener error, every
\* accepted connection's handler has finished; and a handler that has
\* finished, by whichever exit, has closed the client socket and, if the dial
\* succeeded, the upstream socket.
C16_RunWaitsForHandlers ==
    /\ runPc = "returned"
         => /\ listener # "open"
            /\ \A i \in 1..Len(conns) : ConnClosed(i)
    /\ \A i \in 1..Len(conns) :
         /\ conns[i].pc = "done"
              => /\ conns[i].client = "closed"
                 /\ conns[i].upstream \in {"none", "closed"}
                 /\ conns[i].watcher # "armed"
         /\ conns[i].upstream = "none"
              => conns[i].pc \in {"dial", "done"} /\ conns[i].watcher = "none"

\* Run has returned on a listener error, with no cancellation, after a session
\* whose dial failed and a session that went through the relay
C16_Witness ==
    /\ runPc = "returned"
    /\ runCtx = "live"
    /\ runErr = ErrAccept
    /\ Len(conns) = 2
    /\ conns[1].upstream = "none"
    /\ conns[2].c2u = "done"
    /\ conns[2].upstream = "closed"

\* C19 (under SpecRun) - no error of a connection reaches another connection
\* or the accept loop: a step of a handler, failures included, changes that
\* connection alone and leaves Run where it is; Run leaves its loop only on
\* an error of Accept (or never enters it, when listening fails), and returns
\* no error when shutdown was requested or the listener is closed.
C19_ErrorsStayLocal ==
    /\ [][ \A i \in 1..Len(conns) :
             conns'[i] # conns[i]
             => /\ Len(conns') = Len(conns)
                /\ \A j \in 1..Len(conns) : j # i => conns'[j] = conns[j]
                /\ UNCHANGED <<listener, runPc, acceptErr, runErr, runCtx,
                               closer>> ]_vars
    /\ [][ (runPc = "accept" /\ runPc' # "accept")
             => /\ acceptErr' # NilError
                /\ conns' = conns
                /\ (runCtx = "done" \/ acceptErr' = ErrClosed)
                     => runPc' = "wait" /\ runErr' = NilError
                /\ runErr' # NilError => runErr' = acceptErr' ]_vars
    /\ []( /\ (listener # "none" /\ acceptErr = NilError) => runPc = "accept"
           /\ runErr # NilError
                => \/ runErr = ErrListen /\ conns = <<>>
                   \/ runErr = ErrAccept /\ acceptErr = ErrAccept )

\* the dial of the first connection failed; Run is still accepting and the
\* second connection is relaying with both sockets open
C19_Witness ==
    /\ Len(conns) = 2
    /\ conns[1].pc = "done"
    /\ conns[1].upstream = "none"
    /\ conns[2].pc = "pipe"
    /\ conns[2].client = "open"
    /\ conns[2].upstream = "open"
    /\ runPc = "accept"
    /\ listener = "open"
    /\ runCtx = "live"

----------------------------------------------------------------------------
(* Properties of the command line, under SpecConfig *)

\* RunE has returned
RunEReturned == call.op = "RunE" /\ ret # <<>>

\* the gap specification reads min > 0 and max = 0
MinWithoutMax(spec) ==
    /\ Len(spec) = 2
    /\ spec[1].kind = "int"
    /\ ~Negative64(spec[1].val)
    /\ spec[1].val # Zero64
    /\ \/ spec[2].kind = "blank"
       \/ spec[2].kind = "int" /\ spec[2].val = Zero64

\* the Config handed to run passes every test of validateConfig
ValidConfig(config) ==
    /\ ~Negative64(config.GapMin)
    /\ ~Negative64(config.GapMax)
    /\ ~Less64(config.GapMax, config.GapMin)
    /\ Less64(Zero64, config.ReadTimeout)
    /\ Less64(Zero64, config.DialTimeout)
    /\ config.MaxRecordSize > 0
    /\ config.FirstFragment >= 0
    /\ config.Mark >= 0

\* C21 - an invalid configuration is always a startup-time error: for every
\* gap specification and flag combination, run is invoked only if gapMin >= 0,
\* gapMax >= 0, gapMin <= gapMax, read timeout > 0, dial timeout > 0, max
\* record size > 0, first fragment >= 0 and mark >= 0; in particular a gap
\* specification with min > 0 and max = 0 never reaches run.
C21_InvalidConfigNeverRuns ==
    (RunEReturned /\ ret[1].ran)
    => /\ ValidConfig(ret[1].config[1])
       /\ ~MinWithoutMax(call.gapSpec)

====
